---- MODULE Spec2Model ----
(***************************************************************************)
(* Model of AbstractDeimmuPreparation (abstract_deimmu_prep.py): the       *)
(* single-site frequency count, the extraction of the h_i / e_ij energy    *)
(* tables from a coupling model, and the serialisation of the data file.   *)
(***************************************************************************)
EXTENDS Integers, Sequences, FiniteSets, TLC

\* ------------------------------------------------------------------ bounds
\* Length of the wildtype sequence (positions are 0 .. SeqLen-1).
SeqLen == 3
\* Largest number of sequences of an alignment given to _frequencies.
MaxRows == 2
\* Number of columns of an alignment given to _frequencies.
NumCols == 2

VARIABLES
    pc,                     \* position of the run
    upper,                  \* wildtype.upper: native positions, a list
    lower,                  \* wildtype.lower: non-native positions, a list
    ignored_pos,            \* self.ignored_pos
    use_single_site_model,  \* self.use_single_site_model
    possible_mutations,     \* self.possible_mutations: position -> set of symbols
    index_map,              \* ev_couplings.index_map: model column -> index
    hi_indices,             \* self.hi_indices
    hi,                     \* self.hi: (i, a) -> value
    eij_indices,            \* self.eij_indices
    eij,                    \* self.eij: (i, j, ai, aj) -> value
    raised,                 \* the exception that ended the run, or "none"
    file,                   \* the entries written to the output file, in order
    body,                   \* the formatted bodies of the Eij, E, h and eij entries
    matrix,                 \* the alignment given to _frequencies
    fi                      \* the result of _frequencies

vars == <<pc, upper, lower, ignored_pos, use_single_site_model,
          possible_mutations, index_map, hi_indices, hi, eij_indices, eij,
          raised, file, body, matrix, fi>>

\* --------------------------------------------------------- generic helpers
Positions == 0 .. (SeqLen - 1)

Range(s) == {s[n] : n \in DOMAIN s}

SetMin(S) == CHOOSE m \in S : \A x \in S : m <= x

\* The keys of a dict that has none.
EmptyDict == [k \in {} |-> 0]

\* list.sort() on a list of integers (duplicates are kept).
RECURSIVE SortList(_)
SortList(s) ==
    IF s = <<>> THEN <<>>
    ELSE LET m == SetMin(Range(s))
             at == SetMin({n \in DOMAIN s : s[n] = m})
             rest == [n \in 1 .. (Len(s) - 1) |-> IF n < at THEN s[n] ELSE s[n + 1]]
         IN  <<m>> \o SortList(rest)

\* Python's order on tuples of two integers.
PairLess(p, q) == p[1] < q[1] \/ (p[1] = q[1] /\ p[2] < q[2])

\* sorted(set(...)) on pairs of integers.
RECURSIVE SortedPairs(_)
SortedPairs(S) ==
    IF S = {} THEN <<>>
    ELSE LET m == CHOOSE p \in S : \A q \in S : q = p \/ PairLess(p, q)
         IN  <<m>> \o SortedPairs(S \ {m})

\* ------------------------------------------------- the coupling model's data
\* ALPHABET_PROTEIN_NOGAP, the order of the symbols in the output.
ALPHABET_PROTEIN_NOGAP == <<"A", "C">>

\* ev_couplings.alphabet_map: symbol -> symbol index (the gap is symbol 0).
alphabet_map == ("-" :> 0) @@ ("A" :> 1) @@ ("C" :> 2)

\* filter(lambda x: x != '-', ev_couplings.alphabet_map.keys())
NonGapKeys == {a \in DOMAIN alphabet_map : a # "-"}

\* ev_couplings.h_i[m, s]: a table with a different, non-zero value per cell.
h_i(m, s) == (10 * m + s) - 14

\* ev_couplings.J_ij[m, n, s, t]: a different, non-zero value per cell.
J_ij(m, n, s, t) == (100 * m + 10 * n + 3 * s + t) - 125

\* self.single_hi[i, s]: the fitted single-site table.
single_hi(i, s) == 205 - (10 * i + s)

\* wildtype.map_to_uniprot(i): the model column of position i.
map_to_uniprot(i) == 2 * i + 5

\* wildtype.sequence: the residue of every position.
sequence == [n \in 1 .. SeqLen |-> IF n % 2 = 1 THEN "A" ELSE "C"]

\* The iteration order of the set possible_mutations[i].
MutationList(i) ==
    SelectSeq(ALPHABET_PROTEIN_NOGAP, LAMBDA a : a \in possible_mutations[i])

\* index_map built from a list of model columns: column -> its rank.
IndexMapOf(cols) == [c \in cols |-> Cardinality({d \in cols : d < c})]

\* ------------------------------------------------------- extract_ev_paras
\* [i for i in self.wildtype.upper if i not in self.ignored_pos]
HiIndicesNative == SelectSeq(upper, LAMBDA i : i \notin ignored_pos)

\* The non-native positions the fallback adds: for i in self.wildtype.lower,
\* if i not in self.ignored_pos, under if self.use_single_site_model.
HiIndicesFallback ==
    IF use_single_site_model
    THEN SelectSeq(lower, LAMBDA i : i \notin ignored_pos)
    ELSE <<>>

\* The list as it would be with the final sort left out.
HiIndicesSorted_NoSort == HiIndicesNative \o HiIndicesFallback

\* self.hi_indices after the appends and self.hi_indices.sort().
HiIndicesSorted == SortList(HiIndicesNative \o HiIndicesFallback)

\* A lookup that never raises (a dict.get with a default).
KeyErrorAt_Swallowed(i) == FALSE

\* ev_couplings.index_map[self.wildtype.map_to_uniprot(i)] raises KeyError.
KeyErrorAt(i) == map_to_uniprot(i) \notin DOMAIN index_map

\* The value of ev_couplings.index_map[self.wildtype.map_to_uniprot(i)].
ModelIndex(i) ==
    LET c == map_to_uniprot(i)
    IN  IF c \in DOMAIN index_map THEN index_map[c] ELSE 0

\* The positions of the first loop that fills self.hi: for i in self.wildtype.upper.
HiNativePositions(last) == {upper[n] : n \in 1 .. last}

\* The field value stored without the sign flip.
HiNativeValue_NotNegated(i, ai) == h_i(ModelIndex(i), alphabet_map[ai])

\* self.hi[(i, ai)] for a native position.
HiNativeValue(i, ai) == (-1) * h_i(ModelIndex(i), alphabet_map[ai])

\* self.hi[(i, ai)] for a non-native position.
HiFallbackValue(i, ai) == (-1) * single_hi(i, alphabet_map[ai])

\* self.hi after the loops over the first `last` native positions and, when
\* `fallback` holds, over the non-native positions.
HiTable(last, fallback) ==
    LET nat == HiNativePositions(last)
        fb  == IF fallback THEN Range(HiIndicesFallback) ELSE {}
    IN  [k \in (nat \cup fb) \X NonGapKeys |->
            IF k[1] \in fb THEN HiFallbackValue(k[1], k[2])
                           ELSE HiNativeValue(k[1], k[2])]

\* The comprehension without the tests on self.ignored_pos.
EijPairKept_NoIgnoreFilter(i, j) == i # j

\* The condition of the comprehension that builds self.eij_indices.
EijPairKept(i, j) ==
    i # j /\ ((i < j /\ i \notin ignored_pos) \/ (j < i /\ j \notin ignored_pos))

\* sorted(set([(i, j) if i < j else (j, i) for i in upper for j in upper if ...]))
EijIndices ==
    SortedPairs({IF p[1] < p[2] THEN p ELSE <<p[2], p[1]>> :
                    p \in {q \in Range(upper) \X Range(upper) : EijPairKept(q[1], q[2])}})

\* The loops running over the whole alphabet, as the loops of hi do.
EijSymbols_WholeAlphabet(i) == NonGapKeys

\* The amino acids of the loops that fill self.eij for position i.
EijSymbols(i) == possible_mutations[i]

\* self.eij[(i, j, ai, aj)]
EijValue(i, j, ai, aj) ==
    (-1) * J_ij(ModelIndex(i), ModelIndex(j), alphabet_map[ai], alphabet_map[aj])

\* self.eij after the loop over the pairs of `pairs`.
EijTable(pairs) ==
    LET keys == UNION {{<<p[1], p[2], ai, aj>> :
                           ai \in EijSymbols(p[1]), aj \in EijSymbols(p[2])} :
                       p \in Range(pairs)}
    IN  [k \in keys |-> EijValue(k[1], k[2], k[3], k[4])]

\* extract_ev_paras: the whole method, ended by the first KeyError if any.
ExtractEvParas ==
    /\ pc = "constructed"
    /\ LET failing == {n \in DOMAIN upper : KeyErrorAt(upper[n])}
       IN  IF failing = {}
           THEN /\ hi_indices' = HiIndicesSorted
                /\ hi' = HiTable(Len(upper), TRUE)
                /\ eij_indices' = EijIndices
                /\ eij' = EijTable(EijIndices)
                /\ raised' = "none"
                /\ pc' = "extracted"
           ELSE /\ hi_indices' = HiIndicesNative
                /\ hi' = HiTable(SetMin(failing) - 1, FALSE)
                /\ UNCHANGED <<eij_indices, eij>>
                /\ raised' = "KeyError"
                /\ pc' = "aborted"
    /\ UNCHANGED <<upper, lower, ignored_pos, use_single_site_model,
                   possible_mutations, index_map, file, body, matrix, fi>>

\* ---------------------------------------------------------- the formatters
\* format_eij_indices: the pairs of self.eij_indices, 1-based.
format_eij_indices ==
    [n \in DOMAIN eij_indices |-> <<eij_indices[n][1] + 1, eij_indices[n][2] + 1>>]

\* format_hi_indices: the positions of self.hi_indices, 1-based.
format_hi_indices == [n \in DOMAIN hi_indices |-> hi_indices[n] + 1]

\* format_hi reads self.hi[i, aa] for every aa of ALPHABET_PROTEIN_NOGAP.
FormatHiDefined ==
    \A i \in Range(hi_indices) : \A n \in DOMAIN ALPHABET_PROTEIN_NOGAP :
        <<i, ALPHABET_PROTEIN_NOGAP[n]>> \in DOMAIN hi

\* format_hi: one row per position of self.hi_indices, a value per symbol.
format_hi ==
    [n \in DOMAIN hi_indices |->
        <<hi_indices[n] + 1,
          [m \in DOMAIN ALPHABET_PROTEIN_NOGAP |->
              hi[<<hi_indices[n], ALPHABET_PROTEIN_NOGAP[m]>>]]>>]

\* The columns taken from the allowed-mutation set of i instead of j.
EijBlockColumns_OfFirst(i, j) == MutationList(i)

\* The columns of the block format_eij emits for the pair (i, j).
EijBlockColumns(i, j) == MutationList(j)

\* format_eij reads self.eij[i, j, ai, aj] for every row symbol ai of i and
\* every column symbol aj of the block.
FormatEijDefined ==
    \A p \in Range(eij_indices) :
        \A ai \in Range(MutationList(p[1])) :
            \A aj \in Range(EijBlockColumns(p[1], p[2])) :
                <<p[1], p[2], ai, aj>> \in DOMAIN eij

\* format_eij: one block per pair of self.eij_indices: the keyword [i,j,*,*],
\* the identifier (the column symbols) and one content row per symbol of i.
format_eij ==
    [n \in DOMAIN eij_indices |->
        LET i == eij_indices[n][1]
            j == eij_indices[n][2]
        IN  [keyword    |-> <<i + 1, j + 1>>,
             identifier |-> EijBlockColumns(i, j),
             content    |->
                [r \in DOMAIN MutationList(i) |->
                    <<MutationList(i)[r],
                      [c \in DOMAIN EijBlockColumns(i, j) |->
                          eij[<<i, j, MutationList(i)[r], EijBlockColumns(i, j)[c]>>]]>>]]]

\* ------------------------------------------------------------ to_data_file
\* One f.write: a comment banner, a to_data_format entry or the end marker.
Entry(kind, name, idx) == <<kind, name, idx>>

\* The writes up to the 'Sets II' banner.
WritesSetsAndParams ==
    << Entry("banner", "Sets I", 0),
       Entry("set", "SIGMA", 0),
       Entry("set", "A", 0),
       Entry("banner", "Params I", 0),
       Entry("param", "N", 0),
       Entry("param", "eN", 0),
       Entry("param", "k", 0),
       Entry("param", "pssm_thresh", 0),
       Entry("param", "p", 0),
       Entry("param", "pssm", 0),
       Entry("banner", "Sets II", 0) >>

\* The two index sets written in the other order.
WritesIndexSets_Swapped == << Entry("set", "E", 0), Entry("set", "Eij", 0) >>

\* The writes of the two index sets.
WritesIndexSets == << Entry("set", "Eij", 0), Entry("set", "E", 0) >>

\* for i in xrange(len(self.wildtype.sequence)): the WT[i + 1] entries.
WritesWildtype == [n \in 1 .. Len(sequence) |-> Entry("set", "WT", n)]

\* for i in xrange(len(self.wildtype.sequence)): the M[i + 1] entries.
WritesMutations == [n \in 1 .. Len(sequence) |-> Entry("set", "M", n)]

\* The writes from the index sets to the 'Params II' banner.
WritesSetsII ==
    WritesIndexSets \o WritesWildtype \o WritesMutations
        \o << Entry("banner", "Params II", 0) >>

\* The write of the single-position energy table.
WritesHi == << Entry("param", "h", 0) >>

\* The writes of the pairwise energy table and of the end marker.
WritesEijAndEnd == << Entry("param", "eij", 0), Entry("end", "end;", 0) >>

\* The order of extraction and serialisation within a run: the serializer is
\* handed the tables of a completed extraction.
SerializerMayRun == pc = "extracted"

\* to_data_file: the whole method; a failing lookup of a formatter ends it
\* with the entries written so far in the file.
ToDataFile ==
    /\ SerializerMayRun
    /\ IF ~FormatHiDefined
       THEN /\ file' = WritesSetsAndParams \o WritesSetsII
            /\ body' = [body EXCEPT !.Eij = format_eij_indices,
                                    !.E = format_hi_indices]
            /\ raised' = "KeyError"
            /\ pc' = "write_failed"
       ELSE IF ~FormatEijDefined
       THEN /\ file' = WritesSetsAndParams \o WritesSetsII \o WritesHi
            /\ body' = [body EXCEPT !.Eij = format_eij_indices,
                                    !.E = format_hi_indices,
                                    !.h = format_hi]
            /\ raised' = "KeyError"
            /\ pc' = "write_failed"
       ELSE /\ file' = WritesSetsAndParams \o WritesSetsII \o WritesHi
                            \o WritesEijAndEnd
            /\ body' = [Eij |-> format_eij_indices, E |-> format_hi_indices,
                        h |-> format_hi, eij |-> format_eij]
            /\ raised' = "none"
            /\ pc' = "written"
    /\ UNCHANGED <<upper, lower, ignored_pos, use_single_site_model,
                   possible_mutations, index_map, hi_indices, hi, eij_indices,
                   eij, matrix, fi>>

\* ------------------------------------------------------------ _frequencies
\* The symbols an alignment cell is drawn from.
AlignmentSymbols == {"A", "C", "a", "-", "X", "J"}

\* str.upper() on one symbol.
ToUpper(ch) == CASE ch = "a" -> "A" [] ch = "c" -> "C" [] OTHER -> ch

\* aa not in ["-", ".", "X", "B", "Z"]
Counted(aa) == aa \notin {"-", ".", "X", "B", "Z"}

\* ev_couplings.alphabet_map[aa] raises KeyError for a counted cell.
FrequenciesKeyError(mat) ==
    \E s \in DOMAIN mat : \E i \in DOMAIN mat[s] :
        /\ Counted(ToUpper(mat[s][i]))
        /\ ToUpper(mat[s][i]) \notin DOMAIN alphabet_map

\* fi[i, k] before the division: the number of += 1 on that cell.
SymbolCount(mat, i, k) ==
    Cardinality({s \in DOMAIN mat :
        /\ Counted(ToUpper(mat[s][i]))
        /\ ToUpper(mat[s][i]) \in DOMAIN alphabet_map
        /\ alphabet_map[ToUpper(mat[s][i])] = k})

\* The divisor of return fi / N.
FrequencyDivisor(mat) == Len(mat)

\* _frequencies: the L x num_symbols matrix, every cell the fraction
\* <<numerator, denominator>>.
Frequencies(mat) ==
    [i \in 1 .. NumCols |->
        [k \in 0 .. (Cardinality(DOMAIN alphabet_map) - 1) |->
            <<SymbolCount(mat, i, k), FrequencyDivisor(mat)>>]]

\* self.f_i = _frequencies(matrix, ev_couplings)
ComputeFrequencies ==
    /\ pc = "aligned"
    /\ IF FrequenciesKeyError(matrix)
       THEN /\ raised' = "KeyError"
            /\ pc' = "frequencies_failed"
            /\ UNCHANGED fi
       ELSE /\ fi' = Frequencies(matrix)
            /\ raised' = "none"
            /\ pc' = "frequencies_done"
    /\ UNCHANGED <<upper, lower, ignored_pos, use_single_site_model,
                   possible_mutations, index_map, hi_indices, hi, eij_indices,
                   eij, file, body, matrix>>

\* -------------------------------------------------------- specifications
\* A set of integers as an ascending list.
RECURSIVE AscendingList(_)
AscendingList(S) ==
    IF S = {} THEN <<>>
    ELSE <<SetMin(S)>> \o AscendingList(S \ {SetMin(S)})

\* The model columns of the native positions.
NativeColumns == {map_to_uniprot(i) : i \in Range(upper)}

\* The state every run starts from: nothing extracted, nothing written.
Untouched ==
    /\ hi_indices = <<>>
    /\ hi = EmptyDict
    /\ eij_indices = <<>>
    /\ eij = EmptyDict
    /\ raised = "none"
    /\ file = <<>>
    /\ body = [Eij |-> <<>>, E |-> <<>>, h |-> <<>>, eij |-> <<>>]
    /\ fi = <<>>

\* The object after construction and set_possible_mutations, for every
\* split of the positions into native and non-native, every ignore set,
\* both settings of the fallback, every allowed-mutation set that holds the
\* wildtype residue, and a column map that misses at most one native column.
Init ==
    /\ pc = "constructed"
    /\ \E U \in SUBSET Positions :
          /\ upper = AscendingList(U)
          /\ lower = AscendingList(Positions \ U)
    /\ ignored_pos \in SUBSET Positions
    /\ use_single_site_model \in BOOLEAN
    /\ possible_mutations \in
          {pm \in [Positions -> SUBSET NonGapKeys] :
              \A i \in Positions : sequence[i + 1] \in pm[i]}
    /\ \E missing \in {{}} \cup {{c} : c \in NativeColumns} :
          index_map = IndexMapOf(NativeColumns \ missing)
    /\ matrix = <<>>
    /\ Untouched

Next == ExtractEvParas \/ ToDataFile

Spec == Init /\ [][Next]_vars

\* The alignments given to _frequencies: 1 .. MaxRows sequences of NumCols cells.
InitFrequencies ==
    /\ pc = "aligned"
    /\ upper = AscendingList(Positions)
    /\ lower = <<>>
    /\ ignored_pos = {}
    /\ use_single_site_model = TRUE
    /\ possible_mutations = [i \in Positions |-> NonGapKeys]
    /\ index_map = IndexMapOf(NativeColumns)
    /\ \E n \in 1 .. MaxRows :
          matrix \in [1 .. n -> [1 .. NumCols -> AlignmentSymbols]]
    /\ Untouched

NextFrequencies == ComputeFrequencies

SpecFrequencies == InitFrequencies /\ [][NextFrequencies]_vars

\* ------------------------------------------------------------------ claims
\* The native positions, as a set.
NativeSet == Range(upper)

\* A list of pairs is sorted and free of duplicates.
StrictlyAscendingPairs(s) ==
    \A n \in DOMAIN s : n < Len(s) => PairLess(s[n], s[n + 1])

\* A list of integers is ascending and free of duplicates.
StrictlyAscending(s) == \A n \in DOMAIN s : n < Len(s) => s[n] < s[n + 1]

\* C1: after extract_ev_paras, eij_indices is exactly the sorted,
\* duplicate-free list of the pairs (i, j), i < j, of native positions with
\* at least one of i, j outside the ignore set.
C1_EijIndicesAtLeastOneKept ==
    pc = "extracted" =>
        /\ StrictlyAscendingPairs(eij_indices)
        /\ Range(eij_indices) =
              {p \in NativeSet \X NativeSet :
                  p[1] < p[2] /\ (p[1] \notin ignored_pos \/ p[2] \notin ignored_pos)}

\* What the comprehension computes: the pairs whose smaller position is kept.
C1_EijIndicesSmallerKept ==
    pc = "extracted" =>
        /\ StrictlyAscendingPairs(eij_indices)
        /\ Range(eij_indices) =
              {p \in NativeSet \X NativeSet : p[1] < p[2] /\ p[1] \notin ignored_pos}

\* C2: after extract_ev_paras, no key (i, a) of hi has i in the ignore set.
C2_HiHasNoIgnoredKey ==
    pc = "extracted" => \A k \in DOMAIN hi : k[1] \notin ignored_pos

\* What the two loops store: every native position, and the non-native
\* positions outside the ignore set.
C2_HiIgnoredKeysAreNative ==
    pc = "extracted" =>
        \A k \in DOMAIN hi : k[1] \in ignored_pos => k[1] \in NativeSet

\* C3: after extract_ev_paras, for every key (i, j, ai, aj) of eij, each of
\* i and j outside the ignore set is in hi_indices, and i and j are not both
\* in the ignore set.
C3_EijKeysIndexConsistent ==
    pc = "extracted" =>
        \A k \in DOMAIN eij :
            /\ k[1] \notin ignored_pos => k[1] \in Range(hi_indices)
            /\ k[2] \notin ignored_pos => k[2] \in Range(hi_indices)
            /\ k[1] \notin ignored_pos \/ k[2] \notin ignored_pos

\* C3's case: a key of eij with an ignored endpoint, and a native position
\* pair with both endpoints ignored that the extraction had to leave out.
C3_Witness ==
    /\ pc = "extracted"
    /\ \E k \in DOMAIN eij : k[2] \in ignored_pos
    /\ \E i, j \in NativeSet : i < j /\ i \in ignored_pos /\ j \in ignored_pos

\* C4 as stated: every amino acid of a key of hi or of eij is in the
\* allowed-mutation set of its position.
C4_EveryKeySymbolAllowed ==
    pc = "extracted" =>
        /\ \A k \in DOMAIN hi : k[2] \in possible_mutations[k[1]]
        /\ \A k \in DOMAIN eij :
              k[3] \in possible_mutations[k[1]] /\ k[4] \in possible_mutations[k[2]]

\* C4 amended: every amino acid of a key of eij is in the allowed-mutation
\* set of its position; the amino acids of the keys of hi are the non-gap
\* symbols of the model's alphabet, whatever the allowed-mutation set.
C4_EijKeySymbolsAllowed ==
    pc = "extracted" =>
        /\ \A k \in DOMAIN eij :
              k[3] \in possible_mutations[k[1]] /\ k[4] \in possible_mutations[k[2]]
        /\ \A k \in DOMAIN hi : k[2] \in NonGapKeys

\* C4's case: a retained pair with a position whose allowed-mutation set is
\* not the whole alphabet.
C4_Witness ==
    /\ pc = "extracted"
    /\ \E p \in Range(eij_indices) :
          possible_mutations[p[1]] # NonGapKeys /\ possible_mutations[p[2]] = NonGapKeys

\* C5: hi[(i, a)] is the negation of h_i at the mapped column and symbol
\* index for a native i, the negation of the fitted single-site value for a
\* non-native i, and eij[(i, j, ai, aj)] is the negation of J_ij at the
\* mapped columns and symbol indices.
C5_SignConvention ==
    pc = "extracted" =>
        /\ \A k \in DOMAIN hi :
              IF k[1] \in NativeSet
              THEN hi[k] + h_i(index_map[map_to_uniprot(k[1])], alphabet_map[k[2]]) = 0
              ELSE hi[k] + single_hi(k[1], alphabet_map[k[2]]) = 0
        /\ \A k \in DOMAIN eij :
              eij[k] + J_ij(index_map[map_to_uniprot(k[1])],
                            index_map[map_to_uniprot(k[2])],
                            alphabet_map[k[3]], alphabet_map[k[4]]) = 0

\* C5's case: the tables hold a native entry, a fallback entry and a pair.
C5_Witness ==
    /\ pc = "extracted"
    /\ \E k \in DOMAIN hi : k[1] \in NativeSet
    /\ \E k \in DOMAIN hi : k[1] \notin NativeSet
    /\ DOMAIN eij # {}

\* A native position whose model column the column-index map lacks.
Inconsistent == \E i \in NativeSet : map_to_uniprot(i) \notin DOMAIN index_map

\* C6: with a native position whose model column is absent from the
\* column-index map, extract_ev_paras raises and the run writes nothing.
C6_InconsistencyIsFatal ==
    Inconsistent =>
        /\ file = <<>>
        /\ pc \in {"constructed", "aborted"}
        /\ pc = "aborted" => raised = "KeyError"

\* C6's case: the extraction ran on an inconsistent configuration.
C6_Witness == Inconsistent /\ pc = "aborted" /\ Len(upper) > 1

\* The order of the entries the claim C7 lists.
ClaimedOrder ==
    << <<"set", "SIGMA", 0>>, <<"set", "A", 0>>,
       <<"param", "N", 0>>, <<"param", "eN", 0>>, <<"param", "k", 0>>,
       <<"param", "pssm_thresh", 0>>, <<"param", "p", 0>>, <<"param", "pssm", 0>>,
       <<"set", "Eij", 0>>, <<"set", "E", 0>> >>
    \o [n \in 1 .. SeqLen |-> <<"set", "WT", n>>]
    \o [n \in 1 .. SeqLen |-> <<"set", "M", n>>]
    \o << <<"param", "h", 0>>, <<"param", "eij", 0>>, <<"end", "end;", 0>> >>

\* The place of an entry in the file.
PlacesOf(e) == {n \in DOMAIN file : file[n] = e}

\* C7: a successful to_data_file has written every section once, in the
\* fixed order, nothing else but banners, and the end marker last.
C7_FixedSectionOrder ==
    pc = "written" =>
        /\ \A n \in DOMAIN ClaimedOrder : Cardinality(PlacesOf(ClaimedOrder[n])) = 1
        /\ \A n \in DOMAIN ClaimedOrder : \A m \in DOMAIN ClaimedOrder :
              n < m => \A a \in PlacesOf(ClaimedOrder[n]) :
                          \A b \in PlacesOf(ClaimedOrder[m]) : a < b
        /\ \A n \in DOMAIN file :
              file[n][1] = "banner" \/ file[n] \in Range(ClaimedOrder)
        /\ file[Len(file)] = <<"end", "end;", 0>>

\* C7's case: a run that wrote the file.
C7_Witness == pc = "written" /\ Len(file) > SeqLen /\ Len(eij_indices) > 0

\* C8: _frequencies never fails on a symbol outside the comparison
\* alphabet, and in every column the counts sum to N minus the number of
\* cells outside the comparison alphabet (gap and ambiguity codes), every
\* count divided by N.
OutsideAlphabet(ch) == ToUpper(ch) \notin NonGapKeys

C8_FrequenciesSkipOutsiders ==
    pc # "aligned" =>
        /\ pc = "frequencies_done"
        /\ \A i \in 1 .. NumCols :
              LET N == Len(matrix)
                  excluded == Cardinality({s \in 1 .. N : OutsideAlphabet(matrix[s][i])})
                  total == fi[i][0][1] + fi[i][1][1] + fi[i][2][1]
              IN  /\ total = N - excluded
                  /\ \A k \in DOMAIN fi[i] : fi[i][k][2] = N
                  /\ excluded = 0 => total = N
                  /\ excluded = N => total = 0

\* What _frequencies does when it returns: the counts of a column sum to N
\* minus the cells it skips, over the divisor N.
C8_FrequenciesWhenReturned ==
    pc = "frequencies_done" =>
        \A i \in 1 .. NumCols :
            LET N == Len(matrix)
                excluded == Cardinality({s \in 1 .. N : OutsideAlphabet(matrix[s][i])})
                total == fi[i][0][1] + fi[i][1][1] + fi[i][2][1]
            IN  total = N - excluded /\ \A k \in DOMAIN fi[i] : fi[i][k][2] = N

\* C9: for every retained pair (i, j) the table eij holds the entries of
\* possible_mutations[i] x possible_mutations[j], and format_eij emits a
\* block of |possible_mutations[i]| rows by |possible_mutations[j]| columns,
\* every lookup defined, never an empty block.
C9_DenseBlockPerPair ==
    /\ pc # "write_failed"
    /\ pc \in {"extracted", "written"} =>
          \A p \in Range(eij_indices) :
              {<<k[3], k[4]>> : k \in {q \in DOMAIN eij : q[1] = p[1] /\ q[2] = p[2]}}
                  = possible_mutations[p[1]] \X possible_mutations[p[2]]
    /\ pc = "written" =>
          /\ Len(body.eij) = Len(eij_indices)
          /\ \A n \in DOMAIN body.eij :
                LET i == eij_indices[n][1]
                    j == eij_indices[n][2]
                    block == body.eij[n]
                IN  /\ block.keyword = <<i + 1, j + 1>>
                    /\ Len(block.content) = Cardinality(possible_mutations[i])
                    /\ Len(block.content) >= 1
                    /\ Len(block.identifier) = Cardinality(possible_mutations[j])
                    /\ \A r \in DOMAIN block.content :
                          /\ Len(block.content[r][2]) = Cardinality(possible_mutations[j])
                          /\ Len(block.content[r][2]) >= 1

\* C9's case: a written block of one row by two columns.
C9_Witness ==
    /\ pc = "written"
    /\ \E n \in DOMAIN body.eij :
          Len(body.eij[n].content) = 1 /\ Len(body.eij[n].identifier) = 2

\* C10: hi_indices is the ascending, duplicate-free list of the native
\* positions outside the ignore set plus, exactly when the fallback is
\* enabled, the non-native positions outside the ignore set; hi has a value
\* for every non-gap symbol at each of them, and format_hi emits a full row
\* for each.
C10_HiIndicesAndDenseRows ==
    /\ pc # "write_failed"
    /\ pc \in {"extracted", "written"} =>
          /\ StrictlyAscending(hi_indices)
          /\ Range(hi_indices) =
                {i \in NativeSet : i \notin ignored_pos}
                    \cup (IF use_single_site_model
                          THEN {i \in Range(lower) : i \notin ignored_pos}
                          ELSE {})
          /\ \A i \in Range(hi_indices) : \A a \in NonGapKeys : <<i, a>> \in DOMAIN hi
    /\ pc = "written" =>
          /\ Len(body.h) = Len(hi_indices)
          /\ \A n \in DOMAIN body.h :
                /\ body.h[n][1] = hi_indices[n] + 1
                /\ Len(body.h[n][2]) = Len(ALPHABET_PROTEIN_NOGAP)

\* C10's case: with the fallback, a non-native position kept before a
\* native one, and the rows written.
C10_Witness ==
    /\ pc = "written"
    /\ use_single_site_model
    /\ \E i \in Range(lower) : \E j \in NativeSet :
          i < j /\ i \in Range(hi_indices) /\ j \in Range(hi_indices)

====
